---- MODULE Spec2Model ----
(***************************************************************************)
(* Model of the Saga orchestrator of src/src/index.ts.                     *)
(*                                                                         *)
(* One Saga instance owns the list _transactions.  Each execute call is a  *)
(* separate async activation with its own locals (i, args, and, inside     *)
(* _startCompensate, idx/i/args/error).  An activation runs without        *)
(* interruption between two awaits, so every action below is one such      *)
(* synchronous stretch: from the call, or from the settlement of the       *)
(* awaited promise, up to the next await or return.  The promise of        *)
(* execute counts as resolved where the function body returns.  A step     *)
(* function that throws synchronously behaves as one that is invoked and   *)
(* rejects with no other activation running in between, which is one of    *)
(* the interleavings of the actions below.                                 *)
(***************************************************************************)
EXTENDS Integers, Sequences, FiniteSets, TLC

\* ---------------------------------------------------------------- bounds
NumCalls == 2          \* execute calls made on the saga
MaxSteps == 3          \* addTransaction calls made on the saga
MaxLate  == 1          \* those of them made after the first execute call

Procs  == 1..NumCalls

\* the p-th call is execute(p + 2): 3, 4, ...
InitOf(p) == p + 2

\* ------------------------------------------------- caller-supplied steps
\* ITransaction<T>: a name and two functions T -> Promise<T>; T is the
\* integers.  The caller registers the steps Inc, Dbl, Inc, Dbl, ...
StepDefs == { [name |-> "Inc", kind |-> "inc"],
              [name |-> "Dbl", kind |-> "dbl"] }

\* the n-th step the caller registers
StepNo(n) ==
    CHOOSE t \in StepDefs : t.kind = IF n % 2 = 1 THEN "inc" ELSE "dbl"

\* value the promise of transaction.execute(x) resolves with
Fwd(t, x) == IF t.kind = "inc" THEN x + 1 ELSE x * 2

\* value the promise of transaction.compensate(x) resolves with
Cmp(t, x) == IF t.kind = "inc" THEN x - 1 ELSE x \div 2

\* the Error the promise of transaction.execute(x) rejects with
FwdError(t) == IF t.kind = "inc" THEN "IncFailed" ELSE "DblFailed"

\* the Error the promise of transaction.compensate(x) rejects with
CmpError(t) == IF t.kind = "inc" THEN "IncUndoFailed" ELSE "DblUndoFailed"

\* ------------------------------------------------------------- variables
VARIABLES
    transactions,  \* Saga._transactions
    pc,            \* per call: where the activation is suspended
    i,             \* per call: loop variable i of execute
    j,             \* per call: loop variable i of _startCompensate
    args,          \* per call: args of execute, then of _startCompensate
    error,         \* per call: parameter error of _startCompensate
    caught,        \* per call: e bound by the catch of _startCompensate
    result,        \* per call: what the promise of execute resolved with
    chain,         \* the object the last Saga.new or addTransaction returned
    init,          \* history: the argument execute was called with
    n0,            \* history: _transactions.length when execute was called
    late,          \* history: addTransaction calls after the first execute
    added,         \* history: the arguments of the addTransaction calls
    log            \* history: the step functions invoked by the call

vars == <<transactions, pc, i, j, args, error, caught, result, chain, init,
          n0, late, added, log>>

NoError  == "none"
NoResult == [tag |-> "none", error |-> NoError]

\* ------------------------------------------------------ code expressions
\* the Saga instance
This == "this"

\* variant: a step whose name is already registered replaces that step
PushUnique(txs, t) ==
    IF \E k \in 1..Len(txs) : txs[k].name = t.name
    THEN [k \in 1..Len(txs) |-> IF txs[k].name = t.name THEN t ELSE txs[k]]
    ELSE Append(txs, t)

\* this._transactions.push(transaction)
Push(txs, t) == Append(txs, t)

\* return this
AddReturn(self) == self

\* variant: the failed call leaves args undefined
ForwardCatchReset(old) == 0

\* catch (e) { return this._startCompensate(i, args, e) }: args still is
\* the input of the failed call
ForwardCatch(old) == old

\* ok(undefined)
OkResult == [tag |-> "ok", error |-> NoError]

\* variant: the error of a failed compensation replaces the original one
ErrResultCaught(e, c) ==
    [tag |-> "err", error |-> IF c # NoError THEN c ELSE e]

\* variant: a compensation pass without failure turns the run into a success
ErrResultOkIfUndone(e, c) ==
    IF c = NoError THEN OkResult ELSE [tag |-> "err", error |-> e]

\* err(error): _startCompensate returns the error it was given
ErrResult(e, c) == [tag |-> "err", error |-> e]

\* variant: the loop bound is off by one
LoopCondInclusive(k, n) == k <= n

\* i < this._transactions.length
LoopCond(k, n) == k < n

\* variant: the compensation pass starts at the failed step
CompStartAtFailed(idx) == idx

\* variant: the start index is clamped at 0
CompStartClamped(idx) == IF idx = 0 THEN 0 ELSE idx - 1

\* let i = idx - 1
CompStart(idx) == idx - 1

\* i >= 0
CompCond(k) == k >= 0

\* variant: the loop variable advances by two
NextIndexSkip(k) == k + 2

\* variant: the forward loop does not advance
NextIndexStay(k) == k

\* i++
NextIndex(k) == k + 1

\* variant: the compensation loop steps down by two
PrevIndexSkip(k) == k - 2

\* i--
PrevIndex(k) == k - 1

\* variant: args is a field of the saga that all activations share
ArgsOfShared(p) == args[1]

\* the args an activation passes to the next step function: its own local
ArgsOf(p) == args[p]

\* variant: the value the forward function resolved with is dropped
ForwardAssignDropped(old, v) == old

\* args = await execute(args)
ForwardAssign(old, v) == v

\* variant: the value a compensate call returns is dropped
CompensateAssignDropped(old, v) == old

\* args = await this._transactions[i].compensate(args)
CompensateAssign(old, v) == v

\* variant: a failed compensate call leaves args undefined
CompensateCatchReset(old) == 0

\* catch (e) { // nothing to do here }: args keeps its value
CompensateCatch(old) == old

\* the step at 0-based index k
TxAt(k) == transactions[k + 1]

\* ----------------------------------------------------------- history log
Invoke(l, op, k, a) ==
    Append(l, [op |-> op, idx |-> k, arg |-> a,
               st |-> "pending", val |-> 0, err |-> NoError])

Settle(l, st, v, e) ==
    [l EXCEPT ![Len(l)] = [@ EXCEPT !.st = st, !.val = v, !.err = e]]

\* ------------------------------------------------------------------ Init
Init ==
    /\ transactions = << >>
    /\ chain  = This
    /\ pc     = [p \in Procs |-> "idle"]
    /\ i      = [p \in Procs |-> 0]
    /\ j      = [p \in Procs |-> 0]
    /\ args   = [p \in Procs |-> 0]
    /\ error  = [p \in Procs |-> NoError]
    /\ caught = [p \in Procs |-> NoError]
    /\ result = [p \in Procs |-> NoResult]
    /\ init   = [p \in Procs |-> 0]
    /\ n0     = [p \in Procs |-> 0]
    /\ late   = 0
    /\ added  = << >>
    /\ log    = [p \in Procs |-> << >>]

\* --------------------------------------------------------------- actions
\* addTransaction(transaction): push
addTransaction(t) ==
    /\ Len(transactions) < MaxSteps
    /\ (\A p \in Procs : pc[p] = "idle") \/ late < MaxLate
    /\ transactions' = Push(transactions, t)
    /\ chain' = AddReturn(This)
    /\ late' = IF \A p \in Procs : pc[p] = "idle" THEN late ELSE late + 1
    /\ added' = Append(added, t)
    /\ UNCHANGED <<pc, i, j, args, error, caught, result, init, n0, log>>

\* variant: the forward functions of step k and of the step after it are
\* started together
ForwardLoopNoAwait(p, k, a, l) ==
    /\ i' = [i EXCEPT ![p] = k]
    /\ args' = [args EXCEPT ![p] = a]
    /\ IF LoopCond(k, Len(transactions))
       THEN /\ log' = [log EXCEPT ![p] =
                          IF LoopCond(k + 1, Len(transactions))
                          THEN Invoke(Invoke(l, "forward", k, a),
                                      "forward", k + 1, a)
                          ELSE Invoke(l, "forward", k, a)]
            /\ pc' = [pc EXCEPT ![p] = "forward"]
            /\ result' = result
       ELSE /\ log' = [log EXCEPT ![p] = l]
            /\ pc' = [pc EXCEPT ![p] = "done"]
            /\ result' = [result EXCEPT ![p] = OkResult]

\* The head of the for loop of execute with i = k and args = a, and what
\* follows it up to the next await: either the forward function of step k
\* is invoked and awaited, or the loop ends and execute returns ok.
ForwardLoop(p, k, a, l) ==
    /\ i' = [i EXCEPT ![p] = k]
    /\ args' = [args EXCEPT ![p] = a]
    /\ IF LoopCond(k, Len(transactions))
       THEN /\ log' = [log EXCEPT ![p] = Invoke(l, "forward", k, a)]
            /\ pc' = [pc EXCEPT ![p] = "forward"]
            /\ result' = result
       ELSE /\ log' = [log EXCEPT ![p] = l]
            /\ pc' = [pc EXCEPT ![p] = "done"]
            /\ result' = [result EXCEPT ![p] = OkResult]

\* variant: compensate is invoked without being awaited
CompensateLoopNoAwait(p, k, a, l, e, c) ==
    /\ j' = [j EXCEPT ![p] = k]
    /\ args' = [args EXCEPT ![p] = a]
    /\ log' = [log EXCEPT ![p] =
                  IF CompCond(k) THEN Invoke(l, "compensate", k, a) ELSE l]
    /\ pc' = [pc EXCEPT ![p] = "done"]
    /\ result' = [result EXCEPT ![p] = ErrResult(e, c)]

\* The head of the for loop of _startCompensate with i = k and args = a,
\* error = e and c the last error its catch bound: either compensate of
\* step k is invoked and awaited, or the loop ends, _startCompensate
\* returns err(error) and execute returns that result.
CompensateLoop(p, k, a, l, e, c) ==
    /\ j' = [j EXCEPT ![p] = k]
    /\ args' = [args EXCEPT ![p] = a]
    /\ IF CompCond(k)
       THEN /\ log' = [log EXCEPT ![p] = Invoke(l, "compensate", k, a)]
            /\ pc' = [pc EXCEPT ![p] = "compensate"]
            /\ result' = result
       ELSE /\ log' = [log EXCEPT ![p] = l]
            /\ pc' = [pc EXCEPT ![p] = "done"]
            /\ result' = [result EXCEPT ![p] = ErrResult(e, c)]

\* execute(a) is called: the activation runs up to its first await.
\* The calls are numbered in the order in which they are made.
execute(p) ==
    LET a == InitOf(p) IN
    /\ pc[p] = "idle"
    /\ \A q \in Procs : q < p => pc[q] # "idle"
    /\ init' = [init EXCEPT ![p] = a]
    /\ n0' = [n0 EXCEPT ![p] = Len(transactions)]
    /\ ForwardLoop(p, 0, a, << >>)
    /\ UNCHANGED <<transactions, j, error, caught, chain, late, added>>

\* the awaited forward promise resolves: args = result; i++; loop head
forwardResolved(p) ==
    /\ pc[p] = "forward"
    /\ LET v == Fwd(TxAt(i[p]), ArgsOf(p))
       IN  ForwardLoop(p, NextIndex(i[p]), ForwardAssign(ArgsOf(p), v),
                       Settle(log[p], "ok", v, NoError))
    /\ UNCHANGED <<transactions, j, error, caught, chain, init, n0, late,
                   added>>

\* the awaited forward promise rejects: catch (e), _startCompensate(i, args, e)
forwardRejected(p) ==
    /\ pc[p] = "forward"
    /\ LET e == FwdError(TxAt(i[p]))
       IN  /\ error' = [error EXCEPT ![p] = e]
           /\ CompensateLoop(p, CompStart(i[p]), ForwardCatch(ArgsOf(p)),
                             Settle(log[p], "fail", 0, e), e, caught[p])
    /\ UNCHANGED <<transactions, i, caught, chain, init, n0, late, added>>

\* variant: a compensated step is removed from the list
compensateResolvedPop(p) ==
    /\ pc[p] = "compensate"
    /\ LET v == Cmp(TxAt(j[p]), ArgsOf(p))
       IN  CompensateLoop(p, PrevIndex(j[p]), CompensateAssign(ArgsOf(p), v),
                          Settle(log[p], "ok", v, NoError),
                          error[p], caught[p])
    /\ transactions' = SubSeq(transactions, 1, j[p])
    /\ UNCHANGED <<i, error, caught, chain, init, n0, late, added>>

\* the awaited compensate promise resolves: args = result; i--; loop head
compensateResolved(p) ==
    /\ pc[p] = "compensate"
    /\ LET v == Cmp(TxAt(j[p]), ArgsOf(p))
       IN  CompensateLoop(p, PrevIndex(j[p]), CompensateAssign(ArgsOf(p), v),
                          Settle(log[p], "ok", v, NoError),
                          error[p], caught[p])
    /\ UNCHANGED <<transactions, i, error, caught, chain, init, n0, late,
                   added>>

\* the awaited compensate promise rejects: empty catch (e); i--; loop head
compensateRejected(p) ==
    /\ pc[p] = "compensate"
    /\ LET e == CmpError(TxAt(j[p]))
       IN  /\ caught' = [caught EXCEPT ![p] = e]
           /\ CompensateLoop(p, PrevIndex(j[p]), CompensateCatch(ArgsOf(p)),
                             Settle(log[p], "fail", 0, e), error[p], e)
    /\ UNCHANGED <<transactions, i, error, chain, init, n0, late, added>>

Next ==
    \/ addTransaction(StepNo(Len(transactions) + 1))
    \/ \E p \in Procs : execute(p)
    \/ \E p \in Procs : forwardResolved(p)
    \/ \E p \in Procs : forwardRejected(p)
    \/ \E p \in Procs : compensateResolved(p)
    \/ \E p \in Procs : compensateRejected(p)

Spec == Init /\ [][Next]_vars

\* Every forward and compensate call that was started settles, and the
\* continuation of the await then runs.
Settles(p) ==
    WF_vars(\/ forwardResolved(p) \/ forwardRejected(p)
            \/ compensateResolved(p) \/ compensateRejected(p))

FairSpec == Spec /\ \A p \in Procs : Settles(p)

\* ------------------------------------------------------- reading the log
IsForward(x)    == x.op = "forward"
IsCompensate(x) == x.op = "compensate"
Forwards(l)     == SelectSeq(l, IsForward)
Compensates(l)  == SelectSeq(l, IsCompensate)

\* positions of the log at which a forward function failed
FailedAt(l) == {m \in 1..Len(l) : l[m].op = "forward" /\ l[m].st = "fail"}

ForwardFailed(p) == FailedAt(log[p]) # {}

\* the log entry of the first forward function that failed
FirstFailed(p) ==
    log[p][CHOOSE m \in FailedAt(log[p]) : \A x \in FailedAt(log[p]) : m <= x]

\* the activation has left both loops and execute has returned
Returned(p) == pc[p] = "done"

\* left fold of the forward functions of the first n steps over x
RECURSIVE FoldForward(_, _)
FoldForward(n, x) ==
    IF n = 0 THEN x ELSE Fwd(transactions[n], FoldForward(n - 1, x))

\* every step function the activation invoked has settled
AllSettled(l) == \A m \in 1..Len(l) : l[m].st # "pending"

\* what was invoked, and how each invocation ended
Calls(l)    == [m \in 1..Len(l) |-> <<l[m].op, l[m].idx, l[m].arg>>]
Outcomes(l) == [m \in 1..Len(l) |-> l[m].st]

IsPrefix(s, t) == Len(s) <= Len(t) /\ \A m \in 1..Len(s) : s[m] = t[m]

\* The invocations a run on a saga with the steps txs makes from the loop
\* head (ph, k) with state a, when its invocations end as o[m], o[m+1], ...
RECURSIVE RunFrom(_, _, _, _, _, _)
RunFrom(txs, ph, k, a, o, m) ==
    IF (ph = "forward" /\ k >= Len(txs)) \/ (ph = "compensate" /\ k < 0)
    THEN << >>
    ELSE << <<ph, k, a>> >> \o
         ( IF m > Len(o) \/ o[m] = "pending" THEN << >>
           ELSE IF ph = "forward"
           THEN IF o[m] = "ok"
                THEN RunFrom(txs, "forward", k + 1,
                             Fwd(txs[k + 1], a), o, m + 1)
                ELSE RunFrom(txs, "compensate", k - 1, a, o, m + 1)
           ELSE IF o[m] = "ok"
                THEN RunFrom(txs, "compensate", k - 1,
                             Cmp(txs[k + 1], a), o, m + 1)
                ELSE RunFrom(txs, "compensate", k - 1, a, o, m + 1) )

\* the invocations of a first run on a fresh saga with the steps txs
FreshRun(txs, a, o) == RunFrom(txs, "forward", 0, a, o, 1)

\* the result of the run that made the invocations r, which ended as o
FreshResult(txs, r, o) ==
    LET f == {m \in 1..Len(o) : o[m] = "fail" /\ r[m][1] = "forward"}
    IN  IF f = {} THEN OkResult
        ELSE LET m == CHOOSE x \in f : TRUE
             IN  [tag |-> "err", error |-> FwdError(txs[r[m][2] + 1])]

\* ---------------------------------------------------------------- claims

\* C1: when the forward action of step k is the first to fail, compensate
\* is invoked for exactly k-1, k-2, ..., 0, in that order, once each, and
\* never for k or above, whatever the outcome of each compensate call.
C1_ReverseCompensation ==
    \A p \in Procs :
        ForwardFailed(p) =>
            LET k  == FirstFailed(p).idx
                cs == Compensates(log[p])
            IN  /\ Len(cs) <= k
                /\ \A m \in 1..Len(cs) : cs[m].idx = k - m
                /\ Returned(p) => Len(cs) = k

\* a run that failed at step 2, whose compensate of step 1 failed and whose
\* compensate of step 0 succeeded, has returned
C1_Witness ==
    \E p \in Procs :
        /\ pc[p] = "done"
        /\ ForwardFailed(p)
        /\ FirstFailed(p).idx = 2
        /\ LET cs == Compensates(log[p])
           IN  Len(cs) = 2 /\ cs[1].st = "fail" /\ cs[2].st = "ok"

\* C2: when the forward action of step k fails with error E, execute
\* returns err(E), E being the error that forward action raised, whether
\* or not compensate calls fail; a compensation error is never returned.
C2_OriginalErrorPreserved ==
    \A p \in Procs :
        (pc[p] = "done" /\ ForwardFailed(p)) =>
            /\ result[p] = [tag |-> "err", error |-> FirstFailed(p).err]
            /\ FirstFailed(p).err = FwdError(TxAt(FirstFailed(p).idx))
            /\ \A m \in 1..Len(log[p]) :
                   log[p][m].op = "compensate" =>
                       result[p].error # log[p][m].err

\* a failed run in which a compensate call failed has returned the error
\* of the forward action
C2_Witness ==
    \E p \in Procs :
        /\ pc[p] = "done"
        /\ ForwardFailed(p)
        /\ \E m \in 1..Len(log[p]) :
               log[p][m].op = "compensate" /\ log[p][m].st = "fail"
        /\ result[p].error = FirstFailed(p).err

\* C3: when all forward actions succeed, execute(initial) returns ok and
\* the state it holds is the left fold of the forward actions, in
\* registration order, over initial: forward 0 gets initial and forward m
\* gets the output of forward m-1.
C3_AllSucceedFold ==
    \A p \in Procs :
        (pc[p] = "done" /\ ~ForwardFailed(p)) =>
            /\ result[p] = OkResult
            /\ args[p] = FoldForward(Len(log[p]), init[p])
            /\ \A m \in 1..Len(log[p]) :
                   /\ log[p][m].op = "forward"
                   /\ log[p][m].idx = m - 1
                   /\ log[p][m].arg =
                          IF m = 1 THEN init[p] ELSE log[p][m - 1].val
                   /\ log[p][m].val = Fwd(transactions[m], log[p][m].arg)

\* a run of three steps, not all of the same kind, has succeeded
C3_Witness ==
    \E p \in Procs :
        /\ pc[p] = "done"
        /\ result[p] = OkResult
        /\ Len(log[p]) = 3
        /\ transactions[1] # transactions[2]
        /\ args[p] # init[p]

\* C4: execute returns ok if and only if no forward action failed in that
\* execution; after a forward failure the result is an err, also when every
\* compensate call succeeded and the state is restored.
C4_OkIffNoFailure ==
    \A p \in Procs :
        pc[p] = "done" =>
            /\ result[p].tag \in {"ok", "err"}
            /\ result[p].tag = "ok" <=> ~ForwardFailed(p)

\* a run failed at step 2, every compensate call succeeded, the state is
\* back at the initial value, and the result is an err
C4_Witness ==
    \E p \in Procs :
        /\ pc[p] = "done"
        /\ ForwardFailed(p)
        /\ FirstFailed(p).idx = 2
        /\ \A m \in 1..Len(log[p]) :
               log[p][m].op = "compensate" => log[p][m].st = "ok"
        /\ args[p] = init[p]
        /\ result[p].tag = "err"

\* C5: if the forward action of step 0 fails, no compensate call and no
\* further forward call is made, and execute returns err with that error.
C5_FirstStepFailure ==
    \A p \in Procs :
        (Len(log[p]) >= 1 /\ log[p][1].st = "fail") =>
            /\ Len(log[p]) = 1
            /\ log[p][1].op = "forward" /\ log[p][1].idx = 0
            /\ Returned(p)
            /\ pc[p] = "done" =>
                   result[p] = [tag |-> "err", error |-> log[p][1].err]

\* a run of a saga of three steps has returned after step 0 failed
C5_Witness ==
    \E p \in Procs :
        /\ pc[p] = "done"
        /\ n0[p] = 3
        /\ Len(log[p]) = 1
        /\ log[p][1].st = "fail"
        /\ result[p].tag = "err"

\* C6: a saga with zero registered steps returns ok for any initial value
\* without invoking any forward or compensate action.
C6_EmptySaga ==
    \A p \in Procs :
        (pc[p] # "idle" /\ n0[p] = 0) =>
            /\ pc[p] = "done"
            /\ result[p] = OkResult
            /\ log[p] = << >>

\* execute has been called on the empty saga and steps were added later
C6_Witness ==
    \E p \in Procs :
        /\ pc[p] = "done"
        /\ n0[p] = 0
        /\ result[p] = OkResult
        /\ Len(transactions) > 0

\* C7: the forward actions of a call are invoked in registration order
\* 0, 1, 2, ..., each at most once: once for every index up to the first
\* failing one, or up to n-1 when none fails, and none after a failed step.
C7_ForwardOrder ==
    \A p \in Procs :
        LET fs == Forwards(log[p])
        IN  /\ \A m \in 1..Len(fs) : fs[m].idx = m - 1
            /\ \A m \in 1..Len(fs) : m < Len(fs) => fs[m].st = "ok"
            /\ Len(fs) <= Len(transactions)
            /\ (Returned(p) /\ ForwardFailed(p)) =>
                   Len(fs) = FirstFailed(p).idx + 1
            /\ (pc[p] = "done" /\ ~ForwardFailed(p)) =>
                   /\ n0[p] <= Len(fs)
                   /\ Len(transactions) = n0[p] => Len(fs) = n0[p]

\* one run of a saga of three steps invoked all three forward actions and
\* succeeded, another one stopped at the failing step 1 and has returned
C7_Witness ==
    \E p, q \in Procs :
        /\ pc[p] = "done" /\ result[p] = OkResult
        /\ n0[p] = 3 /\ Len(Forwards(log[p])) = 3
        /\ pc[q] = "done" /\ ForwardFailed(q)
        /\ n0[q] = 3 /\ Len(Forwards(log[q])) = 2

\* the state part of C8
ResultOnlyWhenSettled ==
    \A p \in Procs :
        result[p] # NoResult =>
            /\ pc[p] = "done"
            /\ AllSettled(log[p])
            /\ ForwardFailed(p) =>
                   Len(Compensates(log[p])) = FirstFailed(p).idx

\* C8: the result of execute is available only after every step call of
\* the execution has settled, on a failure at k after compensate has
\* completed for all of k-1..0; once the result is there, the execution
\* starts no step call and has none pending.
C8_ResultAfterAllSettled ==
    [][ /\ ResultOnlyWhenSettled'
        /\ \A p \in Procs :
               result[p] # NoResult =>
                   /\ log'[p] = log[p]
                   /\ result'[p] = result[p]
                   /\ pc'[p] = pc[p] ]_vars

\* a run that failed at step 2 has delivered its err after both compensate
\* calls settled, while the other run goes on
C8_Witness ==
    \E p, q \in Procs :
        /\ result[p].tag = "err"
        /\ FirstFailed(p).idx = 2
        /\ Len(Compensates(log[p])) = 2
        /\ AllSettled(log[p])
        /\ pc[q] \in {"forward", "compensate"}

\* a run matches the sequential run of its own initial value and of the
\* outcomes of its own invocations
RunsAlone(p) ==
    LET r == FreshRun(transactions, init[p], Outcomes(log[p]))
    IN  /\ IsPrefix(Calls(log[p]), r)
        /\ Len(transactions) = n0[p] => Calls(log[p]) = r
        /\ pc[p] = "done" =>
               result[p] = FreshResult(transactions, r, Outcomes(log[p]))

\* C9: execute calls in flight at once on one saga each carry their own
\* state: what a call invokes, the state it passes to each invocation and
\* its result depend only on its initial value and on how its own
\* invocations ended, never on the state or progress of another call.
C9_CallsIndependent == \A p \in Procs : pc[p] # "idle" => RunsAlone(p)

\* two calls are in flight at once, one in its forward pass and one in its
\* compensation pass, holding different states
C9_Witness ==
    \E p, q \in Procs :
        /\ pc[p] = "forward" /\ Len(log[p]) >= 2
        /\ pc[q] = "compensate" /\ Len(log[q]) >= 3
        /\ args[p] # args[q]

\* C10: execute and the compensation pass leave the step list unchanged,
\* whether the run ends in ok or err: after any number of runs the list
\* still is the sequence of the steps that were added, and every run on it
\* starts as a first run does, at step 0 with its own initial value.
C10_StepListUnchanged ==
    /\ transactions = added
    /\ \A q \in Procs :
           pc[q] # "idle" =>
               /\ init[q] = InitOf(q)
               /\ n0[q] <= Len(transactions)
               /\ n0[q] = 0 <=> log[q] = << >>
               /\ log[q] # << >> =>
                      /\ log[q][1].op = "forward"
                      /\ log[q][1].idx = 0
                      /\ log[q][1].arg = init[q]

\* on a saga of three steps one run has ended in err after its
\* compensation pass and one in ok, and the three steps are in place
C10_Witness ==
    \E p, q \in Procs :
        /\ pc[p] = "done" /\ result[p].tag = "err"
        /\ n0[p] = 3 /\ Len(Compensates(log[p])) = 2
        /\ pc[q] = "done" /\ result[q].tag = "ok"
        /\ n0[q] = 3
        /\ Len(transactions) = 3

\* C11: a saga is created empty, and every addTransaction call appends its
\* argument at the end of the step list: the list grows by exactly one, the
\* new last step is the argument, every earlier step keeps its position,
\* a step whose name is already registered is accepted like any other, and
\* the call returns the Saga instance it was called on.
C11_AppendOnly ==
    [][ /\ (added = << >> => transactions = << >>)
        /\ chain = This
        /\ added' # added =>
              /\ Len(added') = Len(added) + 1
              /\ Len(transactions') = Len(transactions) + 1
              /\ transactions'[Len(transactions')] = added'[Len(added')]
              /\ \A k \in 1..Len(transactions) :
                    transactions'[k] = transactions[k]
              /\ chain' = This
        /\ added' = added => transactions' = transactions ]_vars

\* three steps registered, the third under the name of the first
C11_Witness ==
    /\ Len(transactions) = 3
    /\ transactions[1].name = transactions[3].name
    /\ added = <<StepNo(1), StepNo(2), StepNo(3)>>
    /\ transactions = added
    /\ chain = This

\* some compensate call of the execution failed
CompensationFailed(p) ==
    \E m \in 1..Len(log[p]) :
        IsCompensate(log[p][m]) /\ log[p][m].st = "fail"

\* C12: when a forward action fails and the compensation logic then fails,
\* the promise returned by execute resolves to an err result containing the
\* error thrown by the compensation logic (the doc comments of execute and
\* _startCompensate).
C12_CompensationErrorReturned ==
    \A p \in Procs :
        (Returned(p) /\ ForwardFailed(p) /\ CompensationFailed(p)) =>
            /\ result[p].tag = "err"
            /\ \E m \in 1..Len(log[p]) :
                  /\ IsCompensate(log[p][m])
                  /\ log[p][m].st = "fail"
                  /\ result[p].error = log[p][m].err

\* C13: when the forward action of step k >= 1 fails, the first compensate
\* call is the one of step k-1 and it receives exactly the state that was
\* passed to the failed forward action, which is the value the forward
\* action of step k-1 returned.
C13_FailedStepKeepsState ==
    [](\A p \in Procs : \A m \in FailedAt(log[p]) :
           log[p][m].idx >= 1 =>
               /\ m >= 2
               /\ Len(log[p]) >= m + 1
               /\ IsForward(log[p][m - 1])
               /\ log[p][m - 1].idx = log[p][m].idx - 1
               /\ log[p][m - 1].st = "ok"
               /\ log[p][m].arg = log[p][m - 1].val
               /\ IsCompensate(log[p][m + 1])
               /\ log[p][m + 1].idx = log[p][m].idx - 1
               /\ log[p][m + 1].arg = log[p][m].arg)

\* steps x+1, x*2 and a third that fails, run from 3: the compensate of the
\* second step is called with 8
C13_Witness ==
    \E p \in Procs :
        /\ init[p] = 3
        /\ Len(log[p]) >= 4
        /\ log[p][1].val = 4
        /\ log[p][2].val = 8
        /\ IsForward(log[p][3]) /\ log[p][3].idx = 2
        /\ log[p][3].st = "fail" /\ log[p][3].arg = 8
        /\ IsCompensate(log[p][4]) /\ log[p][4].idx = 1
        /\ log[p][4].arg = 8

\* positions after the failed forward call at m whose compensate call
\* succeeded, below position x
UndoneBefore(l, m, x) == {y \in (m + 1)..(x - 1) : l[y].st = "ok"}

\* the state the orchestrator holds when it makes the call at position x of
\* a compensation pass that began after position m
HeldAt(l, m, x) ==
    IF UndoneBefore(l, m, x) = {}
    THEN l[m].arg
    ELSE l[CHOOSE y \in UndoneBefore(l, m, x) :
               \A z \in UndoneBefore(l, m, x) : z <= y].val

\* C14: the compensation pass threads the state backward: a compensate call
\* at index j that succeeds makes its return value the input of the call at
\* j-1, one that fails leaves the state untouched, so every compensate call
\* receives the result of the nearest earlier successful compensate call of
\* the pass, or the state at the forward failure if none succeeded.
C14_BackwardThreading ==
    [](\A p \in Procs : \A m \in FailedAt(log[p]) :
           \A x \in (m + 1)..Len(log[p]) :
               /\ IsCompensate(log[p][x])
               /\ log[p][x].arg = HeldAt(log[p], m, x)
               /\ x > m + 1 =>
                     /\ log[p][x].idx = log[p][x - 1].idx - 1
                     /\ log[p][x - 1].st = "ok" =>
                           log[p][x].arg = log[p][x - 1].val
                     /\ log[p][x - 1].st = "fail" =>
                           log[p][x].arg = log[p][x - 1].arg)

\* one execution whose compensate call at index 1 failed and one whose
\* compensate call at index 1 succeeded, each followed by the call at 0
C14_Witness ==
    \E p, q \in Procs :
        /\ Len(log[p]) = 5 /\ Len(log[q]) = 5
        /\ IsCompensate(log[p][4]) /\ log[p][4].st = "fail"
        /\ IsCompensate(log[p][5]) /\ log[p][5].idx = 0
        /\ log[p][5].arg = log[p][4].arg
        /\ IsCompensate(log[q][4]) /\ log[q][4].st = "ok"
        /\ IsCompensate(log[q][5]) /\ log[q][5].idx = 0
        /\ log[q][5].arg = log[q][4].val
        /\ log[q][4].val # log[q][4].arg

\* positions of the log whose call has not settled
InFlight(l) == {m \in 1..Len(l) : l[m].st = "pending"}

\* C15: within one execute call at most one forward or compensate call is in
\* flight at any time: a call is started only when every earlier call of the
\* same execution has settled, so only the last call can be unsettled, and
\* it is exactly while the execution is suspended at an await.
C15_OneInFlight ==
    [](\A p \in Procs :
           /\ Cardinality(InFlight(log[p])) <= 1
           /\ \A m \in InFlight(log[p]) : m = Len(log[p])
           /\ InFlight(log[p]) # {} <=> pc[p] \in {"forward", "compensate"})

\* one execution awaits a compensate call after three settled calls while
\* another execution awaits a forward call
C15_Witness ==
    \E p, q \in Procs :
        /\ p # q
        /\ pc[p] = "compensate" /\ Len(log[p]) = 4
        /\ InFlight(log[p]) = {4}
        /\ pc[q] = "forward" /\ Len(log[q]) = 2
        /\ InFlight(log[q]) = {2}

\* The phases of one execute call: Idle is pc = "idle", Running(i) is
\* pc = "forward", Compensating(j) is pc = "compensate", Completed and
\* Failed are pc = "done" with an ok and an err result.
Completed(p) == pc[p] = "done" /\ result[p].tag = "ok"
Failed(p)    == pc[p] = "done" /\ result[p].tag = "err"

\* the call p takes no step
Stays(p) ==
    /\ pc'[p] = pc[p] /\ i'[p] = i[p] /\ j'[p] = j[p]
    /\ log'[p] = log[p] /\ result'[p] = result[p]

\* the call p takes one step of the state machine
PhaseStep(p) ==
    \/ /\ pc[p] = "idle"
       /\ \/ pc'[p] = "forward" /\ i'[p] = 0
          \/ Completed(p)' /\ log'[p] = << >>
    \/ /\ pc[p] = "forward"
       /\ log'[p][Len(log[p])].st = "ok"
       /\ i'[p] = i[p] + 1
       /\ pc'[p] = "forward" \/ Completed(p)'
    \/ /\ pc[p] = "forward"
       /\ log'[p][Len(log[p])].st = "fail"
       /\ i'[p] = i[p]
       /\ j'[p] = i[p] - 1
       /\ IF j'[p] >= 0 THEN pc'[p] = "compensate" ELSE Failed(p)'
    \/ /\ pc[p] = "compensate"
       /\ log'[p][Len(log[p])].st \in {"ok", "fail"}
       /\ i'[p] = i[p]
       /\ j'[p] = j[p] - 1
       /\ IF j'[p] >= 0 THEN pc'[p] = "compensate" ELSE Failed(p)'

\* no forward call after a compensate call, and no compensate call without
\* a failed forward call
PassesInOrder(l) ==
    /\ \A m, x \in 1..Len(l) :
          (m < x /\ IsCompensate(l[m])) => IsCompensate(l[x])
    /\ (\E m \in 1..Len(l) : IsCompensate(l[m])) => FailedAt(l) # {}

\* C16: each execute call follows Idle -> Running(i) -> {Completed |
\* Compensating(j) -> Failed} and never goes back: Running(i) moves to
\* Running(i+1) on forward success (Completed when the loop then ends) and
\* to Compensating(i-1) on forward failure, Compensating(j) moves to
\* Compensating(j-1) whatever the outcome, and to Failed once the index is
\* below 0; no forward call follows a compensate call, no compensate call
\* is made without a forward failure, Completed and Failed are terminal.
C16_StateMachine ==
    [][ \A p \in Procs :
           /\ Stays(p) \/ PhaseStep(p)
           /\ pc[p] = "done" => Stays(p)
           /\ PassesInOrder(log'[p])
           /\ Completed(p)' => \A m \in 1..Len(log'[p]) :
                                  IsForward(log'[p][m]) ]_vars

\* one call is Failed after Compensating(1) and Compensating(0), another is
\* Completed after Running(0), Running(1) and Running(2)
C16_Witness ==
    \E p, q \in Procs :
        /\ Failed(p) /\ i[p] = 2 /\ j[p] = -1
        /\ Len(Compensates(log[p])) = 2
        /\ Completed(q) /\ i[q] = 3
        /\ Len(log[q]) = 3

\* no step was appended since the call p was made
NoneAppended(p) == Len(transactions) = n0[p]

\* at most n forward calls and at most n-1 compensate calls (none for n = 0)
WithinBounds(p, n) ==
    /\ Len(Forwards(log[p])) <= n
    /\ Len(Compensates(log[p])) <= IF n = 0 THEN 0 ELSE n - 1

\* the call p, if made and no step was appended since, has returned
Terminated(p) ==
    (pc[p] # "idle" /\ NoneAppended(p)) =>
        (Completed(p) \/ Failed(p)) /\ result[p] # NoResult

\* C17: if every forward and compensate call that is started settles and no
\* step is appended while the call runs, an execute call on a saga of n
\* steps eventually is Completed or Failed and has returned a result, and it
\* makes at most n forward calls and at most n-1 compensate calls: again
\* and again every call made so far has returned, and no call exceeds the
\* two bounds.
C17_Terminates ==
    /\ []<>(\A p \in Procs : Terminated(p))
    /\ [](\A p \in Procs :
             (pc[p] # "idle" /\ NoneAppended(p)) => WithinBounds(p, n0[p]))

\* a call on three steps has returned after three forward calls and two
\* compensate calls, no step having been appended meanwhile
C17_Witness ==
    \E p \in Procs :
        /\ n0[p] = 3 /\ NoneAppended(p)
        /\ Failed(p)
        /\ Len(Forwards(log[p])) = 3
        /\ Len(Compensates(log[p])) = 2

\* C18: the step list is immutable once execution has begun: the steps an
\* execute call runs are exactly those registered when the call was made,
\* so an addTransaction call made while the call is suspended at an await
\* does not change which forward or compensate actions it invokes.
C18_StepsFixedAtCall ==
    \A p \in Procs :
        /\ \A m \in 1..Len(log[p]) : log[p][m].idx < n0[p]
        /\ Completed(p) => Len(Forwards(log[p])) = n0[p]

\* the compensate function of every step undoes its forward function
ExactInverses ==
    \A t \in StepDefs : \A x \in 0..64 : Cmp(t, Fwd(t, x)) = x

\* C19: if the compensate function of every step is an exact inverse of its
\* forward function and no compensate call fails, then after a forward
\* failure at any index the state the orchestrator holds at the end of the
\* compensation pass equals the initial value passed to execute.
C19_RoundTrip ==
    ExactInverses =>
        \A p \in Procs :
            (Failed(p) /\ ~CompensationFailed(p)) => args[p] = init[p]

\* two executions, failed at index 2 and at index 1, were undone step by
\* step and are back at their initial values
C19_Witness ==
    \E p, q \in Procs :
        /\ Failed(p) /\ FirstFailed(p).idx = 2 /\ ~CompensationFailed(p)
        /\ FirstFailed(p).arg # init[p]
        /\ Len(Compensates(log[p])) = 2
        /\ args[p] = init[p]
        /\ Failed(q) /\ FirstFailed(q).idx = 1 /\ ~CompensationFailed(q)
        /\ FirstFailed(q).arg # init[q]
        /\ Len(Compensates(log[q])) = 1
        /\ args[q] = init[q]

====
